---- MODULE Spec2Model ----
(***************************************************************************)
(* Graph construction of the SAGAN model (SAGAN/sagan_model.py).           *)
(*                                                                         *)
(* Spec      : the file as it is.  Its compilation is rejected because the  *)
(*             signature of __init__ names gf_dim twice, so importing the  *)
(*             module raises SyntaxError and no statement of the class     *)
(*             ever runs.                                                  *)
(* SpecCtor  : the body of SAGAN.__init__ analysed as a method, called     *)
(*             with gf_dim given by the caller, on an empty default        *)
(*             graph.  n_layer is a float, so every run that passes the    *)
(*             assertion stops at the range() of the first generator loop. *)
(*             The statements after that range() are translated too; no    *)
(*             behaviour reaches them, so they belong to no next-state     *)
(*             relation.                                                   *)
(*                                                                         *)
(* Tensors are modelled by their static shape without the batch axis,      *)
(* <<height, width, channels>> or <<features>>.  Variable names are        *)
(* (scope, layer, number, slot); scope names are sequences of characters   *)
(* so that str.startswith is computed on them.                             *)
(***************************************************************************)
EXTENDS Integers, Sequences, FiniteSets, TLC

\* ---------------------------------------------------------------- bounds
\* heights are 2^2 .. 2^MaxExp
MaxExp == 7

\* ------------------------------------------------------- program constants
n_classes == 10
z_dim == 128
df_dim == 64
DiscStages == 5
FinalConvNo == 5
GenKernel == 5
DiscKernel == 3
FeatMap == 4
DLrMult == 4
GLrMult == 1

RECURSIVE Pow2(_)
Pow2(n) == IF n = 0 THEN 1 ELSE 2 * Pow2(n - 1)

\* np.log2 on a power of two (exact in floating point)
RECURSIVE Log2(_)
Log2(n) == IF n <= 1 THEN 0 ELSE 1 + Log2(n \div 2)

Heights == {Pow2(e) : e \in 2..MaxExp}
Channels == {1, 3}
\* values the caller passes for gf_dim (the two numbers line 18 mentions)
GfDims == {64, 384}

\* the parameter names of __init__, lines 16-18
Signature ==
    <<"self", "s", "batch_size", "height", "width", "channel", "n_classes",
      "sample_num", "sample_size", "df_dim", "gf_dim", "gf_dim", "fc_unit",
      "z_dim", "lr">>
\* the compiler rejects a function definition that names a parameter twice
DuplicateArg(sig) == \E j, k \in 1..Len(sig) : j < k /\ sig[j] = sig[k]

\* ------------------------------------------------------------ python values
PyFloat(v) == [kind |-> "float", val |-> v]
PyInt(v) == [kind |-> "int", val |-> v]
Unset == [kind |-> "unset", val |-> 0]

\* self.n_layer = np.log2(self.height) - 2
LayerCount(h) == PyFloat(Log2(h) - 2)

\* a // b (b > 0) keeps the kind of a
FloorDiv(a, b) == [kind |-> a.kind, val |-> a.val \div b]

\* range(lo, hi): only integers are accepted
RangeOk(lo, hi) == lo.kind = "int" /\ hi.kind = "int"
RECURSIVE Upto(_, _)
Upto(lo, hi) == IF lo >= hi THEN <<>> ELSE <<lo>> \o Upto(lo + 1, hi)
Range(lo, hi) == Upto(lo.val, hi.val)

\* assert self.height == self.width
SquareOkLax(h, w) == h <= w
SquareOk(h, w) == h = w

\* ------------------------------------------------------------------- names
GenScope == <<"g", "e", "n", "e", "r", "a", "t", "o", "r">>
DiscScope == <<"d", "i", "s", "c", "r", "i", "m", "i", "n", "a", "t", "o", "r">>

\* 'base-%d' % n ; a fixed name has its own number, a name without one has 0
Layer(base, n) == [base |-> base, n |-> n]
VarName(scope, layer, slot) == [scope |-> scope, layer |-> layer, slot |-> slot]

\* v.name.startswith(c)
StartsWith(v, c) == Len(v.scope) > 0 /\ v.scope[1] = c

\* ----------------------------------------------------------- layer helpers
\* the slots a layer asks the variable store for, with their shapes
ConvSlots(x, f, k) == {<<"kernel", <<k, k, x[3], f>>>>, <<"bias", <<f>>>>}
DenseSlots(x, units) == {<<"kernel", <<x[1], units>>>>, <<"bias", <<units>>>>}
BnSlots(x) == {<<"gamma", <<x[Len(x)]>>>>, <<"beta", <<x[Len(x)]>>>>}

\* output shapes. conv2d pads 'SAME': ceil(size / stride)
CeilDiv(a, b) == (a + b - 1) \div b
ConvOut(x, f, s) == <<CeilDiv(x[1], s), CeilDiv(x[2], s), f>>
Flatten(x) == <<x[1] * x[2] * x[3]>>

\* get_variable under tf.variable_scope(scope, reuse=reuse)
Wanted(scope, layer, slots) == {VarName(scope, layer, sl[1]) : sl \in slots}
ShapeOf(slots, slot) == (CHOOSE sl \in slots : sl[1] = slot)[2]
GetError(store, scope, reuse, layer, slots) ==
    LET want == Wanted(scope, layer, slots)
        have == want \cap DOMAIN store
    IN  IF ~reuse
        THEN IF have # {} THEN "VarExists" ELSE "ok"
        ELSE IF have # want THEN "VarMissing"
             ELSE IF \E v \in want : store[v] # ShapeOf(slots, v.slot)
                  THEN "ShapeMismatch" ELSE "ok"
GetStore(store, scope, reuse, layer, slots) ==
    IF reuse THEN store
    ELSE [v \in DOMAIN store \cup Wanted(scope, layer, slots) |->
            IF v \in DOMAIN store THEN store[v] ELSE ShapeOf(slots, v.slot)]

\* ------------------------------------------------------------------- state
VARIABLES pc, err, height, width, channel, gf_dim, n_layer, placeholders,
          store, x, todo, g, bi, call, reuse, input, genReq,
          log, ret, c_real, d_real, c_fake, d_fake, d_loss, g_loss,
          d_params, g_params, d_op, g_op

config == <<height, width, channel, gf_dim>>
graph == <<store>>
genState == <<g, genReq>>
discState == <<call, reuse, input, ret>>
lossState == <<c_real, d_real, c_fake, d_fake, d_loss, g_loss>>
optState == <<d_params, g_params, d_op, g_op>>
vars == <<pc, err, height, width, channel, gf_dim, n_layer, placeholders,
          store, x, todo, g, bi, call, reuse, input, genReq,
          log, ret, c_real, d_real, c_fake, d_fake, d_loss, g_loss,
          d_params, g_params, d_op, g_op>>

NoLogit == [head |-> "none", input |-> "none"]
Logit(head, inp) == [head |-> head, input |-> inp]
NoOp == [set |-> FALSE, lr |-> 0, loss |-> <<>>, var_list |-> {}]
EmptyStore == [v \in {} |-> <<>>]

\* the fields __init__ pre-defines (lines 68-80) and the empty default graph
Predefined ==
    /\ err = "none"
    /\ store = EmptyStore
    /\ x = <<>> /\ todo = <<>> /\ g = <<>>
    /\ call = 0 /\ reuse = FALSE /\ input = "none"
    /\ genReq = <<>>
    /\ log = <<>>
    /\ ret = <<>>
    /\ c_real = NoLogit /\ d_real = NoLogit
    /\ c_fake = NoLogit /\ d_fake = NoLogit
    /\ d_loss = <<>> /\ g_loss = <<>>
    /\ d_params = {} /\ g_params = {}
    /\ d_op = NoOp /\ g_op = NoOp

\* a process about to import the module and call SAGAN(s, height=..,
\* width=.., channel=..); gf_dim has no value
Init ==
    /\ pc = "import"
    /\ height \in Heights /\ width \in Heights
    /\ channel \in Channels /\ gf_dim = 0
    /\ n_layer = Unset
    /\ placeholders = {}
    /\ bi = 0
    /\ Predefined

\* entry of the body of __init__ with the arguments bound
InitCtor ==
    /\ pc = "ctor"
    /\ height \in Heights /\ width \in Heights
    /\ channel \in Channels /\ gf_dim \in GfDims
    /\ n_layer = Unset
    /\ placeholders = {}
    /\ bi = 0
    /\ Predefined

Raise(e) == pc' = "raised" /\ err' = e

\* ------------------------------------------------------------------ import
\* compilation of the module, lines 14-18
Import ==
    /\ pc = "import"
    /\ IF DuplicateArg(Signature)
       THEN Raise("SyntaxError")
       ELSE pc' = "ctor" /\ err' = err
    /\ UNCHANGED <<config, n_layer, placeholders, graph, x, todo, bi, genState,
                   discState, log, lossState, optState>>

\* ------------------------------------------------------------- constructor
\* lines 43-52
CtorFields ==
    /\ pc = "ctor"
    /\ n_layer' = LayerCount(height)
    /\ pc' = "assert"
    /\ UNCHANGED <<err, config, placeholders, graph, x, todo, bi, genState,
                   discState, log, lossState, optState>>

\* line 53
AssertSquare ==
    /\ pc = "assert"
    /\ IF SquareOk(height, width)
       THEN pc' = "defaults" /\ err' = err
       ELSE Raise("AssertionError")
    /\ UNCHANGED <<config, n_layer, placeholders, graph, x, todo, bi, genState,
                   discState, log, lossState, optState>>

\* lines 55-80
CtorDefaults ==
    /\ pc = "defaults"
    /\ d_loss' = <<>> /\ g_loss' = <<>>
    /\ g' = <<>>
    /\ d_op' = NoOp /\ g_op' = NoOp
    /\ pc' = "placeholders"
    /\ UNCHANGED <<err, config, n_layer, placeholders, graph, x, todo, bi,
                   genReq, discState, log, c_real, d_real, c_fake, d_fake,
                   d_params, g_params>>

\* lines 83-88
Placeholders ==
    /\ pc = "placeholders"
    /\ placeholders' = {"x-image", "z-noise"}
    /\ pc' = "build" /\ bi' = 1
    /\ UNCHANGED <<err, config, n_layer, graph, x, todo, genState, discState,
                   log, lossState, optState>>

\* --------------------------------------------------------------- generator
\* the statements of build_sagan, in program order
build_sagan ==
    <<"generator", "disc_real", "disc_fake", "losses", "params",
      "d_op", "g_op", "finish">>

At(stmt) == pc = "build" /\ bi \in 1..Len(build_sagan) /\ build_sagan[bi] = stmt

\* line 161: self.g = self.generator(self.z)
CallGenerator ==
    /\ At("generator")
    /\ x' = <<z_dim>>
    /\ log' = Append(log, "generator")
    /\ pc' = "g_fc"
    /\ UNCHANGED <<err, config, n_layer, placeholders, graph, todo, bi,
                   genState, discState, lossState, optState>>

\* lines 123-127
GenDense ==
    /\ pc = "g_fc"
    /\ LET units == FeatMap * FeatMap * gf_dim * 8
           layer == Layer("gen-fc", 1)
           slots == DenseSlots(x, units)
           e == GetError(store, GenScope, FALSE, layer, slots)
       IN  /\ genReq' = Append(genReq, layer)
           /\ IF e = "ok"
              THEN /\ store' = GetStore(store, GenScope, FALSE, layer, slots)
                   /\ x' = <<FeatMap, FeatMap, gf_dim * 8>>
                   /\ pc' = "g_range1" /\ err' = err
              ELSE Raise(e) /\ UNCHANGED <<graph, x>>
    /\ UNCHANGED <<config, n_layer, placeholders, todo, bi, g, discState,
                   log, lossState, optState>>

\* line 130: for i in range(self.n_layer // 2)
GenRange1 ==
    /\ pc = "g_range1"
    /\ LET hi == FloorDiv(n_layer, 2)
       IN  IF RangeOk(PyInt(0), hi)
           THEN todo' = Range(PyInt(0), hi) /\ pc' = "g_body1" /\ err' = err
           ELSE Raise("TypeError") /\ todo' = todo
    /\ UNCHANGED <<config, n_layer, placeholders, graph, x, bi, genState,
                   discState, log, lossState, optState>>

\* one iteration of a stage loop: conv2d (up_sampling is True), batch_norm, relu
GenStage(i) ==
    LET f == (gf_dim * 8) \div Pow2(i + 1)
        convL == Layer("gen-conv2d", i + 1)
        cs == ConvSlots(x, f, GenKernel)
        e1 == GetError(store, GenScope, FALSE, convL, cs)
        s1 == GetStore(store, GenScope, FALSE, convL, cs)
        x1 == ConvOut(x, f, 1)
        bnL == Layer("gen-bn", i)
        bs == BnSlots(x1)
        e2 == GetError(s1, GenScope, FALSE, bnL, bs)
        s2 == GetStore(s1, GenScope, FALSE, bnL, bs)
    IN  IF e1 # "ok"
        THEN /\ Raise(e1)
             /\ genReq' = Append(genReq, convL)
             /\ UNCHANGED <<graph, x, todo>>
        ELSE IF e2 # "ok"
        THEN /\ Raise(e2)
             /\ genReq' = genReq \o <<convL, bnL>>
             /\ store' = s1
             /\ UNCHANGED <<x, todo>>
        ELSE /\ genReq' = genReq \o <<convL, bnL>>
             /\ store' = s2
             /\ x' = x1
             /\ todo' = Tail(todo)
             /\ UNCHANGED <<pc, err>>

\* lines 131-139
GenBody1 ==
    /\ pc = "g_body1" /\ todo # <<>>
    /\ GenStage(Head(todo))
    /\ UNCHANGED <<config, n_layer, placeholders, bi, g, discState, log,
                   lossState, optState>>

\* lines 141-144: the attention layer is the identity; second range
GenRange2 ==
    /\ pc = "g_body1" /\ todo = <<>>
    /\ LET lo == FloorDiv(n_layer, 2)
       IN  IF RangeOk(lo, n_layer)
           THEN todo' = Range(lo, n_layer) /\ pc' = "g_body2" /\ err' = err
           ELSE Raise("TypeError") /\ todo' = todo
    /\ UNCHANGED <<config, n_layer, placeholders, graph, x, bi, genState,
                   discState, log, lossState, optState>>

\* lines 145-153
GenBody2 ==
    /\ pc = "g_body2" /\ todo # <<>>
    /\ GenStage(Head(todo))
    /\ UNCHANGED <<config, n_layer, placeholders, bi, g, discState, log,
                   lossState, optState>>

\* lines 155-157 and the assignment of line 161
GenFinal ==
    /\ pc = "g_body2" /\ todo = <<>>
    /\ LET layer == Layer("gen-conv2d", FinalConvNo)
           slots == ConvSlots(x, channel, GenKernel)
           e == GetError(store, GenScope, FALSE, layer, slots)
       IN  /\ genReq' = Append(genReq, layer)
           /\ IF e = "ok"
              THEN /\ store' = GetStore(store, GenScope, FALSE, layer, slots)
                   /\ x' = ConvOut(x, channel, 1)
                   /\ g' = x'
                   /\ pc' = "build" /\ bi' = bi + 1 /\ err' = err
              ELSE Raise(e) /\ UNCHANGED <<graph, x, g, bi>>
    /\ UNCHANGED <<config, n_layer, placeholders, todo, discState, log,
                   lossState, optState>>

\* ----------------------------------------------------------- discriminator
\* line 164: c_real, d_real, _ = self.discriminator(self.x)
CallDiscReal ==
    /\ At("disc_real")
    /\ call' = call + 1 /\ reuse' = FALSE /\ input' = "x"
    /\ x' = <<height, width, channel>>
    /\ log' = Append(log, "disc_real")
    /\ pc' = "d_conv1"
    /\ UNCHANGED <<err, config, n_layer, placeholders, graph, todo, bi,
                   genState, ret, lossState, optState>>

\* line 165: c_fake, d_fake, _ = self.discriminator(self.g, reuse=True)
FakeReuse == TRUE
CallDiscFake ==
    /\ At("disc_fake")
    /\ call' = call + 1 /\ reuse' = FakeReuse /\ input' = "g"
    /\ x' = g
    /\ log' = Append(log, "disc_fake")
    /\ pc' = "d_conv1"
    /\ UNCHANGED <<err, config, n_layer, placeholders, graph, todo, bi,
                   genState, ret, lossState, optState>>

\* one parameter-bearing layer of the running discriminator invocation:
\* <<error, store after>>
DiscLayer(st, layer, slots) ==
    LET e == GetError(st, DiscScope, reuse, layer, slots)
    IN  IF e = "ok"
        THEN <<e, GetStore(st, DiscScope, reuse, layer, slots)>>
        ELSE <<e, st>>

\* lines 97-100 and the range of line 102
DiscConv1 ==
    /\ pc = "d_conv1"
    /\ LET r == DiscLayer(store, Layer("disc-conv2d", 1),
                          ConvSlots(x, df_dim, DiscKernel))
       IN  /\ store' = r[2]
           /\ IF r[1] = "ok"
              THEN /\ x' = ConvOut(x, df_dim, 2)
                   /\ todo' = Upto(0, DiscStages)
                   /\ pc' = "d_body" /\ err' = err
              ELSE Raise(r[1]) /\ UNCHANGED <<x, todo>>
    /\ UNCHANGED <<config, n_layer, placeholders, bi, genState, call, reuse,
                   input, ret, log, lossState, optState>>

\* lines 103-106
DiscBody ==
    /\ pc = "d_body" /\ todo # <<>>
    /\ LET i == Head(todo)
           f == df_dim * Pow2(i + 1)
           x1 == ConvOut(x, f, (i % 2) + 1)
           r1 == DiscLayer(store, Layer("disc-conv2d", i + 2),
                           ConvSlots(x, f, DiscKernel))
           r2 == DiscLayer(r1[2], Layer("disc-bn", i + 1), BnSlots(x1))
           r == IF r1[1] = "ok" THEN r2 ELSE r1
       IN  /\ store' = r[2]
           /\ IF r[1] = "ok"
              THEN x' = x1 /\ todo' = Tail(todo) /\ UNCHANGED <<pc, err>>
              ELSE Raise(r[1]) /\ UNCHANGED <<x, todo>>
    /\ UNCHANGED <<config, n_layer, placeholders, bi, genState, call, reuse,
                   input, ret, log, lossState, optState>>

\* return cat, disc, net
DiscReturn(inp) ==
    <<Logit("disc-fc-cat", inp), Logit("disc-fc-disc", inp), Logit("net", inp)>>

\* lines 108-113 and the unpacking of line 164 or 165
DiscHeads ==
    /\ pc = "d_body" /\ todo = <<>>
    /\ LET net == Flatten(x)
           r1 == DiscLayer(store, Layer("disc-fc-cat", 0),
                           DenseSlots(net, n_classes))
           r2 == DiscLayer(r1[2], Layer("disc-fc-disc", 0),
                           DenseSlots(net, 1))
           r == IF r1[1] = "ok" THEN r2 ELSE r1
       IN  /\ store' = r[2]
           /\ IF r[1] = "ok"
              THEN /\ x' = net
                   /\ ret' = DiscReturn(input)
                   /\ IF build_sagan[bi] = "disc_real"
                      THEN /\ c_real' = ret'[1] /\ d_real' = ret'[2]
                           /\ UNCHANGED <<c_fake, d_fake>>
                      ELSE /\ c_fake' = ret'[1] /\ d_fake' = ret'[2]
                           /\ UNCHANGED <<c_real, d_real>>
                   /\ pc' = "build" /\ bi' = bi + 1 /\ err' = err
              ELSE /\ Raise(r[1])
                   /\ UNCHANGED <<x, ret, bi, c_real, d_real, c_fake, d_fake>>
    /\ UNCHANGED <<config, n_layer, placeholders, todo, genState, call, reuse,
                   input, log, d_loss, g_loss, optState>>

\* ------------------------------------------------------ losses and optimizers
\* t.sce_loss(logits, labels) with labels all target
Sce(logit, target) == [logit |-> logit, target |-> target]
\* a sum is the sequence of its terms
DLoss(dr, df) == <<Sce(dr, 1), Sce(df, 0)>>
GLoss(df) == <<Sce(df, 1)>>

\* lines 168-177
AssembleLosses ==
    /\ At("losses")
    /\ d_loss' = DLoss(d_real, d_fake)
    /\ g_loss' = GLoss(d_fake)
    /\ log' = Append(log, "losses")
    /\ bi' = bi + 1
    /\ UNCHANGED <<pc, err, config, n_layer, placeholders, graph, x, todo,
                   genState, discState, c_real, d_real, c_fake, d_fake,
                   optState>>

\* lines 180-182
DParams(t_vars) == {v \in t_vars : StartsWith(v, "d")}
GParams(t_vars) == {v \in t_vars : StartsWith(v, "g")}

SelectParams ==
    /\ At("params")
    /\ d_params' = DParams(DOMAIN store)
    /\ g_params' = GParams(DOMAIN store)
    /\ log' = Append(log, "params")
    /\ bi' = bi + 1
    /\ UNCHANGED <<pc, err, config, n_layer, placeholders, graph, x, todo,
                   genState, discState, lossState, d_op, g_op>>

\* lines 184-185
BuildDOp ==
    /\ At("d_op")
    /\ d_op' = [set |-> TRUE, lr |-> DLrMult, loss |-> d_loss, var_list |-> d_params]
    /\ log' = Append(log, "d_op")
    /\ bi' = bi + 1
    /\ UNCHANGED <<pc, err, config, n_layer, placeholders, graph, x, todo,
                   genState, discState, lossState, d_params, g_params, g_op>>

\* lines 186-187
BuildGOp ==
    /\ At("g_op")
    /\ g_op' = [set |-> TRUE, lr |-> GLrMult, loss |-> g_loss, var_list |-> g_params]
    /\ log' = Append(log, "g_op")
    /\ bi' = bi + 1
    /\ UNCHANGED <<pc, err, config, n_layer, placeholders, graph, x, todo,
                   genState, discState, lossState, d_params, g_params, d_op>>

\* lines 189-194: summaries merged, saver and writer made; __init__ returns
Finish ==
    /\ At("finish")
    /\ pc' = "done"
    /\ UNCHANGED <<err, config, n_layer, placeholders, graph, x, todo, bi,
                   genState, discState, log, lossState, optState>>

Next == Import

Spec == Init /\ [][Next]_vars

NextCtor ==
    \/ CtorFields \/ AssertSquare \/ CtorDefaults \/ Placeholders
    \/ CallGenerator \/ GenDense \/ GenRange1

SpecCtor == InitCtor /\ [][NextCtor]_vars

\* the statements after the range() of line 130
Rest ==
    \/ GenBody1 \/ GenRange2 \/ GenBody2 \/ GenFinal
    \/ CallDiscReal \/ CallDiscFake \/ DiscConv1 \/ DiscBody \/ DiscHeads
    \/ AssembleLosses \/ SelectParams \/ BuildDOp \/ BuildGOp \/ Finish
\* no state of the constructor enables one of them
RestNeverRuns == ~ENABLED Rest

\* ------------------------------------------------------------------ claims
InLog(e) == \E k \in 1..Len(log) : log[k] = e
IsPrefix(a, b) == Len(a) <= Len(b) /\ \A k \in 1..Len(a) : a[k] = b[k]

\* C4: constructing the model with height = width = 32 and channel = 3 does
\* not raise.
C4_DefaultConstructs ==
    (height = 32 /\ width = 32 /\ channel = 3) => pc # "raised"

\* C5: once generator has been called and is over, self.g is a tensor of
\* spatial size height x width with the configured channel count.
C5_GeneratorShape ==
    (InLog("generator") /\ pc \notin {"g_fc", "g_range1", "g_body1", "g_body2"})
        => g = <<height, width, channel>>

\* C6: with height # width construction stops at the assertion, before any
\* placeholder, layer or optimizer exists; with height = width the assertion
\* never fires.
C6_AssertSquare ==
    /\ height # width =>
         /\ placeholders = {} /\ log = <<>> /\ DOMAIN store = {}
         /\ ~d_op.set /\ ~g_op.set
         /\ pc \in {"ctor", "assert", "raised"}
         /\ pc = "raised" => err = "AssertionError"
    /\ height = width => err # "AssertionError"
C6_Witness == height # width /\ pc = "raised" /\ err = "AssertionError"

\* C7: for height = width = 32 the derived layer count is 5.
C7_LayerCountIs5 ==
    (height = 32 /\ width = 32 /\ n_layer.kind # "unset") => n_layer.val = 5

\* build_sagan has been entered and nothing more of it will run
BuildOver == bi >= 1 /\ pc \in {"done", "raised"}

\* C2: when build_sagan is over, d_params and g_params have no parameter in
\* common and every trainable parameter the generator and discriminator calls
\* created belongs to one of them: their union is the trainable set.
C2_Partition ==
    BuildOver =>
        /\ d_params \cap g_params = {}
        /\ d_params \cup g_params = DOMAIN store

\* C8: when build_sagan is over, the discriminator loss is the sum of the
\* cross-entropy of the real image's real/fake logit against 1 and of the
\* generated image's real/fake logit against 0, the generator loss is the
\* cross-entropy of the generated image's real/fake logit against 1, and no
\* class logit enters either.
C8_Losses ==
    BuildOver =>
        /\ d_loss = << [logit |-> [head |-> "disc-fc-disc", input |-> "x"], target |-> 1],
                       [logit |-> [head |-> "disc-fc-disc", input |-> "g"], target |-> 0] >>
        /\ g_loss = << [logit |-> [head |-> "disc-fc-disc", input |-> "g"], target |-> 1] >>

\* C9: build_sagan builds the generator once, then the discriminator twice,
\* on the real input and then on the generator output with reuse, then the
\* losses, then the two optimizer operations: its statements run in this order
\* and, when it is over, all of them have run.
C9_Order ==
    /\ IsPrefix(log, <<"generator", "disc_real", "disc_fake", "losses",
                       "params", "d_op", "g_op">>)
    /\ BuildOver =>
         /\ log = <<"generator", "disc_real", "disc_fake", "losses",
                    "params", "d_op", "g_op">>
         /\ call = 2 /\ reuse
         /\ d_op.set /\ g_op.set

====
